---- MODULE Spec2Model ----
(***************************************************************************)
(* A model of src/watcher.py: the chokidar file watcher multiplexer         *)
(* (FileWatcherChokidar), its dependency installer (_initialize_storage    *)
(* with TemporaryInstallationMarker) and its dispatch step (on_payload).    *)
(*                                                                         *)
(* Text is modelled as a sequence of tokens.  The token ":" is the          *)
(* separator character; every other token is a colon-free piece of text     *)
(* ("1", "changed", "src", "/").  The text is the concatenation of its      *)
(* tokens, so two texts are equal exactly when their token sequences are.   *)
(*                                                                         *)
(* Spec runs the multiplexer with each call of register_watcher, destroy,   *)
(* on_payload and on_transport_close as one step, made one after the other. *)
(* SpecInstall runs _initialize_storage statement by statement, with        *)
(* exceptions and with the host killed at any point.                        *)
(* SpecThreads runs register_watcher, destroy and on_payload statement by   *)
(* statement in concurrent threads.  SpecReader runs the read loop over     *)
(* StringTransportHandler.read_data on an output stream of the process.     *)
(***************************************************************************)
EXTENDS Integers, Sequences, FiniteSets, TLC

VARIABLES
    last_controller_id,   \* self._last_controller_id
    handlers,             \* self._handlers: str(id) -> (weakref(handler), root_path)
    node_runtime,         \* self._node_runtime is set
    transport,            \* self._transport: 0 is None, else the process it wraps
    controllers,          \* ids of the FileWatcherController objects callers hold
    live,                 \* handler objects that are still alive (weak reference targets)
    issued,               \* controller ids in the order register_watcher assigned them
    spawned,              \* number of watcher processes started so far
    running,              \* the watcher processes that are alive
    closing,              \* processes whose on_transport_close callback is pending
    stdin,                \* per process, the commands written to its input stream
    disk,                 \* the Package Storage directory of the watcher
    src_hash,             \* fingerprint of the package.json shipped with the package
    pc,                   \* position of a stepwise _initialize_storage call
    installed,            \* the local `installed` of that call
    steps,                \* the install steps that call has performed
    start,                \* disk and manifest as that call found them
    prev,                 \* how the last call ended: "none", "ok", "raised", "killed"
    after_ok,             \* the call began right after a call that returned normally
    result,               \* what the last multiplexer operation did
    threads,              \* per thread, the call it is in: position and local variables
    released,             \* ids whose _on_watcher_removed call has returned
    reader                \* the transport's read loop: input stream, position, outcome

vars == <<last_controller_id, handlers, node_runtime, transport, controllers, live,
          issued, spawned, running, closing, stdin, disk, src_hash, pc, installed,
          steps, start, prev, after_ok, result, threads, released, reader>>

mux_vars == <<last_controller_id, handlers, node_runtime, transport, controllers, live,
              issued, spawned, running, closing, stdin, result>>

call_vars == <<pc, installed, steps, start, prev, after_ok>>

thread_vars == <<threads, released, reader>>

----------------------------------------------------------------------------
(* Bounds of the model. *)

\* registrations made in one run
MaxId == 2
\* watcher processes started in one run
MaxProcs == 2
\* distinct package.json contents (versions of the package)
NHash == 2

----------------------------------------------------------------------------
(* Text. *)

Digits == <<"0", "1", "2", "3", "4", "5", "6", "7", "8", "9">>

\* str(n) for n >= 0
RECURSIVE Str(_)
Str(n) == IF n < 10 THEN <<Digits[n + 1]>> ELSE Str(n \div 10) \o <<Digits[(n % 10) + 1]>>

\* index of the first sep in s, 0 when there is none
RECURSIVE Find(_, _, _)
Find(s, sep, i) ==
    IF i > Len(s) THEN 0 ELSE IF s[i] = sep THEN i ELSE Find(s, sep, i + 1)

\* A faulty variant of Split, s.split(sep): every separator splits.
RECURSIVE SplitAll(_, _, _)
SplitAll(s, sep, maxsplit) ==
    LET i == Find(s, sep, 1)
    IN  IF i = 0
        THEN <<s>>
        ELSE <<SubSeq(s, 1, i - 1)>> \o SplitAll(SubSeq(s, i + 1, Len(s)), sep, maxsplit)

\* s.split(sep, maxsplit)
RECURSIVE Split(_, _, _)
Split(s, sep, maxsplit) ==
    LET i == Find(s, sep, 1)
    IN  IF maxsplit = 0 \/ i = 0
        THEN <<s>>
        ELSE <<SubSeq(s, 1, i - 1)>> \o Split(SubSeq(s, i + 1, Len(s)), sep, maxsplit - 1)

\* path.join(root_path, rel) of posixpath
Join(root_path, rel) ==
    IF rel # <<>> /\ rel[1] = "/" THEN rel
    ELSE IF root_path = <<>> \/ root_path[Len(root_path)] = "/" THEN root_path \o rel
    ELSE root_path \o <<"/">> \o rel

----------------------------------------------------------------------------
(* The dependency installer. *)

\* disk.marker: CHOKIDAR_INSTALATION_MARKER exists
\* disk.dir:    destination_dir exists
\* disk.pkg:    hash of destination_dir/package.json, 0 when the file is absent
\* disk.cli:    version of destination_dir/chokidar-cli/index.js, 0 when absent
\* disk.nm:     destination_dir/node_modules: 0 absent, 1 partly installed, 2 installed
EmptyDisk == [marker |-> FALSE, dir |-> FALSE, pkg |-> 0, cli |-> 0, nm |-> 0]

\* A whole install of some version: sources, manifest and dependencies.
Whole(d) == d.dir /\ d.pkg # 0 /\ d.cli = d.pkg /\ d.nm = 2

\* A whole install of the version the package ships.
Complete(d, src) == Whole(d) /\ d.pkg = src

\* Faulty variants of Installed: one that does not look at the marker, one that
\* never finds the install valid.
InstalledIgnoringMarker(d, src) ==
    /\ d.nm # 0
    /\ d.pkg # 0
    /\ src = d.pkg

InstalledNever(d, src) == FALSE

\* The check of _initialize_storage: the value of `installed` at line 208.
Installed(d, src) ==
    /\ d.nm # 0                       \* path.isdir(destination_dir/node_modules)
    /\ d.pkg # 0                      \* else FileNotFoundError: needs re-install
    /\ src = d.pkg /\ ~d.marker       \* src_hash == dst_hash and no marker file

\* TemporaryInstallationMarker.__enter__
MarkerEnter(d) == [d EXCEPT !.marker = TRUE]

\* A faulty variant of MarkerExit: the marker is removed on an exception too.
MarkerExitAlways(d, exc) == [d EXCEPT !.marker = FALSE]

\* TemporaryInstallationMarker.__exit__; exc is exc_type
MarkerExit(d, exc) == IF exc THEN d ELSE [d EXCEPT !.marker = FALSE]

\* rmtree(destination_dir)
Rmtree(d) == [d EXCEPT !.dir = FALSE, !.pkg = 0, !.cli = 0, !.nm = 0]

\* rmtree raising part way: the directory is left with some of its content
RmtreePartial(d) ==
    { [d EXCEPT !.pkg = p, !.cli = c, !.nm = n] :
        p \in {0, d.pkg}, c \in {0, d.cli}, n \in 0..(IF d.nm = 2 THEN 1 ELSE d.nm) }

\* ResourcePath(VIRTUAL_CHOKIDAR_PATH).copytree(destination_dir, exist_ok=True)
Copytree(d, src) == [d EXCEPT !.dir = TRUE, !.pkg = src, !.cli = src]

\* copytree raising part way
CopytreePartial(d, src) ==
    {d} \cup { [d EXCEPT !.dir = TRUE, !.pkg = p, !.cli = c] :
                 p \in {d.pkg, src}, c \in {d.cli, src} }

\* node_runtime.npm_install(destination_dir)
NpmInstall(d) == [d EXCEPT !.nm = 2]

\* npm_install raising part way
NpmInstallPartial(d) == { [d EXCEPT !.nm = n] : n \in {d.nm, 1} }

\* The body of the `with` block up to the first exception, or to its end: the set of
\* [disk, raised] it can leave.
InstallBody(d, src) ==
    LET d1 == IF d.dir THEN Rmtree(d) ELSE d
        d2 == Copytree(d1, src)
        d3 == NpmInstall(d2)
    IN  (IF d.dir THEN { [disk |-> x, raised |-> TRUE] : x \in RmtreePartial(d) } ELSE {})
        \cup { [disk |-> x, raised |-> TRUE] : x \in CopytreePartial(d1, src) }
        \cup { [disk |-> x, raised |-> TRUE] : x \in NpmInstallPartial(d2) }
        \cup { [disk |-> d3, raised |-> FALSE] }

\* _initialize_storage as one call: the set of [disk, raised] it can end with.
InitializeStorage(d, src) ==
    IF Installed(d, src)
    THEN { [disk |-> d, raised |-> FALSE] }
    ELSE { [disk |-> d, raised |-> TRUE] }                       \* __enter__ raises
         \cup { [disk |-> MarkerExit(o.disk, o.raised), raised |-> o.raised] :
                  o \in InstallBody(MarkerEnter(d), src) }
         \cup { [disk |-> NpmInstall(Copytree(Rmtree(MarkerEnter(d)), src)),
                 raised |-> TRUE] }                              \* remove() raises

----------------------------------------------------------------------------
(* _initialize_storage step by step, as one host session runs it.  A step that
   raises leaves what it had done so far and unwinds through __exit__; Kill is
   the host dying at any point of the call. *)

Finish(how) ==
    /\ pc' = "idle"
    /\ prev' = how

\* _start_process reaches line 175
Call ==
    /\ pc = "idle"
    /\ pc' = "check"
    /\ installed' = FALSE
    /\ steps' = <<>>
    /\ start' = [disk |-> disk, src |-> src_hash]
    /\ after_ok' = (prev = "ok")
    /\ prev' = "none"
    /\ UNCHANGED <<disk, src_hash>>
    /\ UNCHANGED mux_vars
    /\ UNCHANGED thread_vars

\* lines 195-208
Check ==
    /\ pc = "check"
    /\ installed' = Installed(disk, src_hash)
    /\ IF installed' THEN Finish("ok") ELSE pc' = "enter" /\ prev' = prev
    /\ UNCHANGED <<disk, src_hash, steps, start, after_ok>>
    /\ UNCHANGED mux_vars
    /\ UNCHANGED thread_vars

\* line 209, __enter__
Enter ==
    /\ pc = "enter"
    /\ \/ /\ disk' = MarkerEnter(disk)
          /\ steps' = Append(steps, "marker")
          /\ pc' = "rmtree"
          /\ prev' = prev
       \/ /\ Finish("raised")
          /\ UNCHANGED <<disk, steps>>
    /\ UNCHANGED <<src_hash, installed, start, after_ok>>
    /\ UNCHANGED mux_vars
    /\ UNCHANGED thread_vars

\* lines 210-211
RmtreeStep ==
    /\ pc = "rmtree"
    /\ \/ /\ ~disk.dir
          /\ pc' = "copytree"
          /\ UNCHANGED <<disk, steps, prev>>
       \/ /\ disk.dir
          /\ disk' = Rmtree(disk)
          /\ steps' = Append(steps, "rmtree")
          /\ pc' = "copytree"
          /\ prev' = prev
       \/ /\ disk.dir
          /\ \E x \in RmtreePartial(disk) : disk' = MarkerExit(x, TRUE)
          /\ steps' = Append(steps, "rmtree")
          /\ Finish("raised")
    /\ UNCHANGED <<src_hash, installed, start, after_ok>>
    /\ UNCHANGED mux_vars
    /\ UNCHANGED thread_vars

\* line 212
CopytreeStep ==
    /\ pc = "copytree"
    /\ \/ /\ disk' = Copytree(disk, src_hash)
          /\ pc' = "npm_install"
          /\ prev' = prev
       \/ /\ \E x \in CopytreePartial(disk, src_hash) : disk' = MarkerExit(x, TRUE)
          /\ Finish("raised")
    /\ steps' = Append(steps, "copytree")
    /\ UNCHANGED <<src_hash, installed, start, after_ok>>
    /\ UNCHANGED mux_vars
    /\ UNCHANGED thread_vars

\* lines 213-214
NpmInstallStep ==
    /\ pc = "npm_install"
    /\ \/ /\ disk' = NpmInstall(disk)
          /\ pc' = "exit"
          /\ prev' = prev
       \/ /\ \E x \in NpmInstallPartial(disk) : disk' = MarkerExit(x, TRUE)
          /\ Finish("raised")
    /\ steps' = Append(steps, "npm_install")
    /\ UNCHANGED <<src_hash, installed, start, after_ok>>
    /\ UNCHANGED mux_vars
    /\ UNCHANGED thread_vars

\* leaving the `with` block normally: __exit__ with no exception
ExitStep ==
    /\ pc = "exit"
    /\ \/ /\ disk' = MarkerExit(disk, FALSE)
          /\ steps' = Append(steps, "unmarker")
          /\ Finish("ok")
       \/ /\ Finish("raised")                \* remove() raises
          /\ UNCHANGED <<disk, steps>>
    /\ UNCHANGED <<src_hash, installed, start, after_ok>>
    /\ UNCHANGED mux_vars
    /\ UNCHANGED thread_vars

\* what the step at pc may have written when the host dies in the middle of it
Interrupted ==
    CASE pc = "enter" -> {disk, MarkerEnter(disk)}
      [] pc = "rmtree" /\ disk.dir -> RmtreePartial(disk)
      [] pc = "copytree" -> CopytreePartial(disk, src_hash)
      [] pc = "npm_install" -> NpmInstallPartial(disk)
      [] pc = "exit" -> {disk, MarkerExit(disk, FALSE)}
      [] OTHER -> {disk}

Kill ==
    /\ pc # "idle"
    /\ \E x \in Interrupted : disk' = x
    /\ Finish("killed")
    /\ UNCHANGED <<src_hash, installed, steps, start, after_ok>>
    /\ UNCHANGED mux_vars
    /\ UNCHANGED thread_vars

\* the package is updated between two sessions: line 199 reads another package.json
PackageUpdated ==
    /\ pc = "idle"
    /\ \E h \in (1..NHash) \ {src_hash} : src_hash' = h
    /\ prev' = "none"
    /\ UNCHANGED <<disk, pc, installed, steps, start, after_ok>>
    /\ UNCHANGED mux_vars
    /\ UNCHANGED thread_vars

----------------------------------------------------------------------------
(* The multiplexer: FileWatcherChokidar. *)

\* the subscribers' callback objects (FileWatcherProtocol)
Handlers == {"h1", "h2"}

\* the arguments of register_watcher each subscriber passes with its handler
RequestOf(h) ==
    IF h = "h1"
    THEN [root_path |-> <<"/", "a", "/", "b">>, patterns |-> <<"*.py">>,
          events |-> <<"create", "change">>, ignores |-> <<>>]
    ELSE [root_path |-> <<"/">>, patterns |-> <<"*">>,
          events |-> <<"delete">>, ignores |-> <<"node_modules">>]

NoResult == [op |-> "init", id |-> 0, payload |-> <<>>, raised |-> "none", invoked |-> <<>>]

\* A faulty variant of NextControllerId: the id is taken from the table's size.
NextControllerIdFromTable == Cardinality(DOMAIN handlers) + 1

\* the id register_watcher assigns: self._last_controller_id += 1
NextControllerId == last_controller_id + 1

\* A faulty variant of TableEmpty: the table is never seen empty.
TableEmptyNever(table) == FALSE

\* not len(self._handlers), line 157
TableEmpty(table) == DOMAIN table = {}

\* A faulty variant of Deref: the reference keeps resolving after its target died.
DerefStrong(alive, h) == h

\* handler(): the target of the weak reference, "None" once it is destroyed
Deref(alive, h) == IF h \in alive THEN h ELSE "None"

\* A faulty variant of Put: the entry is stored only once a process exists.
PutUnlessStopped(table, key, value) ==
    IF transport = 0
    THEN table
    ELSE [k \in DOMAIN table \cup {key} |-> IF k = key THEN value ELSE table[k]]

\* self._handlers[str(controller_id)] = (weakref.ref(handler), root_path)
Put(table, key, value) ==
    [k \in DOMAIN table \cup {key} |-> IF k = key THEN value ELSE table[k]]

\* self._handlers.pop(str(controller_id))
Pop(table, key) == [k \in DOMAIN table \ {key} |-> table[k]]

\* A faulty variant of RegisterData: the requested events are not sent.
RegisterDataNoEvents(req, uid) ==
    [op |-> "register", cwd |-> req.root_path, events |-> <<>>,
     ignores |-> req.ignores, patterns |-> req.patterns, uid |-> uid]

\* the line _to_json(register_data) sends, by its fields
RegisterData(req, uid) ==
    [op |-> "register", cwd |-> req.root_path, events |-> req.events,
     ignores |-> req.ignores, patterns |-> req.patterns, uid |-> uid]

\* the line _to_json({'unregister': controller_id}) sends
UnregisterData(controller_id) == [op |-> "unregister", uid |-> controller_id]

\* self._transport.send(line), for the transport of process p: a line written to
\* a process that has ended is lost
Send(p, line) == IF p \in running THEN [stdin EXCEPT ![p] = Append(@, line)] ELSE stdin

\* the input pipe of a process that ended is gone with it
Drop(pipes, p) == IF p \in DOMAIN pipes THEN [pipes EXCEPT ![p] = <<>>] ELSE pipes

\* _resolve_node_runtime and _start_process: the ways the call can end, as
\* [node_runtime, disk, raised], raised = "none" when the process was started.
\* Popen is given pipes for stdin and stdout, so the RuntimeError of line 181
\* cannot happen.
StartProcess(runtime, d, src) ==
    (IF runtime THEN {}
     ELSE { [node_runtime |-> FALSE, disk |-> d,
             raised |-> "Failed to locate the Node.js Runtime"] })
    \cup { [node_runtime |-> TRUE, disk |-> d, raised |-> "Node binary not resolved"] }
    \cup { [node_runtime |-> TRUE, disk |-> o.disk, raised |-> "npm install failed"] :
             o \in { x \in InitializeStorage(d, src) : x.raised } }
    \cup { [node_runtime |-> TRUE, disk |-> o.disk, raised |-> r] :
             o \in { x \in InitializeStorage(d, src) : ~x.raised },
             r \in {"Popen failed", "none"} }

\* A faulty variant of EndProcess: the transport is closed and still referenced.
EndProcessKeepsHandle ==
    /\ running' = running \ {transport}
    /\ UNCHANGED transport

\* _end_process: closes the transport and forgets it.  The closed transport
\* reports its end through on_transport_close later.
EndProcess ==
    IF transport # 0
    THEN /\ running' = running \ {transport}
         /\ transport' = 0
    ELSE UNCHANGED <<running, transport>>

\* the pipes after _end_process, given the pipes before it
Closed(pipes) == Drop(pipes, transport)

\* register_watcher(root_path, patterns, events, ignores, handler)
Register(req, h) ==
    LET controller_id == NextControllerId
        entry == [handler |-> h, root_path |-> req.root_path]
        line == RegisterData(req, controller_id)
    IN  /\ last_controller_id < MaxId
        /\ h \in live
        /\ last_controller_id' = controller_id
        /\ issued' = Append(issued, controller_id)
        /\ handlers' = Put(handlers, Str(controller_id), entry)
        /\ IF transport = 0
           THEN /\ spawned < MaxProcs
                /\ \E o \in StartProcess(node_runtime, disk, src_hash) :
                     /\ node_runtime' = o.node_runtime
                     /\ disk' = o.disk
                     /\ IF o.raised = "none"
                        THEN /\ spawned' = spawned + 1
                             /\ transport' = spawned + 1
                             /\ running' = running \cup {spawned + 1}
                             /\ stdin' = Append(stdin, <<line>>)
                             /\ controllers' = controllers \cup {controller_id}
                        ELSE UNCHANGED <<spawned, transport, running, stdin, controllers>>
                     /\ result' = [NoResult EXCEPT !.op = "register",
                                                   !.id = controller_id,
                                                   !.raised = o.raised]
           ELSE /\ stdin' = Send(transport, line)
                /\ controllers' = controllers \cup {controller_id}
                /\ result' = [NoResult EXCEPT !.op = "register", !.id = controller_id]
                /\ UNCHANGED <<node_runtime, disk, spawned, transport, running>>
        /\ UNCHANGED <<live, closing, src_hash>>
        /\ UNCHANGED call_vars
        /\ UNCHANGED thread_vars

\* FileWatcherController.destroy: _on_watcher_removed(controller_id)
Unregister(controller_id) ==
    /\ controller_id \in controllers
    /\ controllers' = controllers \ {controller_id}
    /\ handlers' = Pop(handlers, Str(controller_id))
    /\ IF transport = 0
       THEN UNCHANGED <<stdin, transport, running, closing>>
       ELSE IF TableEmpty(handlers')
            THEN /\ EndProcess
                 /\ stdin' = Closed(Send(transport, UnregisterData(controller_id)))
                 /\ closing' = closing \cup {transport}
            ELSE /\ stdin' = Send(transport, UnregisterData(controller_id))
                 /\ UNCHANGED <<transport, running, closing>>
    /\ result' = [NoResult EXCEPT !.op = "unregister", !.id = controller_id]
    /\ UNCHANGED <<last_controller_id, node_runtime, live, issued, spawned, disk, src_hash>>
    /\ UNCHANGED call_vars
    /\ UNCHANGED thread_vars

\* the watcher process ends on its own; its transport will report it
ProcessExit(p) ==
    /\ p \in running
    /\ running' = running \ {p}
    /\ closing' = closing \cup {p}
    /\ stdin' = Drop(stdin, p)
    /\ result' = NoResult
    /\ UNCHANGED <<last_controller_id, handlers, node_runtime, transport, controllers, live,
                   issued, spawned, disk, src_hash>>
    /\ UNCHANGED call_vars
    /\ UNCHANGED thread_vars

\* on_transport_close(exit_code, exception), delivered for the transport of process p
OnTransportClose(p) ==
    /\ p \in closing
    /\ EndProcess
    /\ closing' = (closing \ {p}) \cup ({transport} \ {0, p})
    /\ stdin' = Closed(stdin)
    /\ result' = [NoResult EXCEPT !.op = "on_transport_close", !.id = p]
    /\ UNCHANGED <<last_controller_id, handlers, node_runtime, controllers, live,
                   issued, spawned, disk, src_hash>>
    /\ UNCHANGED call_vars
    /\ UNCHANGED thread_vars

\* a subscriber's callback object is destroyed by its owner
DestroyHandler(h) ==
    /\ h \in live
    /\ live' = live \ {h}
    /\ result' = NoResult
    /\ UNCHANGED <<last_controller_id, handlers, node_runtime, transport, controllers,
                   issued, spawned, running, closing, stdin, disk, src_hash>>
    /\ UNCHANGED call_vars
    /\ UNCHANGED thread_vars

\* on_payload(payload): [raised, invoked], invoked the calls of on_file_event_async
\* as [handler, batch]
Dispatch(table, alive, payload) ==
    IF Find(payload, ":", 1) = 0
    THEN [raised |-> "none", invoked |-> <<>>]              \* 'Invalid watcher output'
    ELSE LET parts == Split(payload, ":", 2)
         IN  IF Len(parts) # 3
             THEN [raised |-> "ValueError", invoked |-> <<>>]      \* unpacking
             ELSE IF parts[1] \notin DOMAIN table
             THEN [raised |-> "KeyError", invoked |-> <<>>]        \* self._handlers[uid]
             ELSE IF Deref(alive, table[parts[1]].handler) = "None"
             THEN [raised |-> "none", invoked |-> <<>>]      \* 'Handler already deleted'
             ELSE [raised |-> "none",
                   invoked |-> << [handler |-> Deref(alive, table[parts[1]].handler),
                                   batch |-> << <<parts[2],
                                                  Join(table[parts[1]].root_path,
                                                       parts[3])>> >>] >>]

\* the lines the watcher process may print: well-formed ones for every id and for
\* an id that is no key of the table, with event types and paths of each shape,
\* and lines with fewer than two separators
UidTexts == { Str(n) : n \in 1..MaxId } \cup { <<"0", "1">> }

Shapes ==
    { <<":", "changed", ":", "src", "/", "foo.py">>,
      <<":", "create", ":", "src", "/", "foo.py">>,
      <<":", "removed", ":", "C", ":", "x">>,
      <<":", "rename", ":", "/", "etc">> }

Payloads ==
    { u \o t : u \in UidTexts, t \in Shapes }
    \cup { <<"1", ":", "changed">>, <<"ready">> }

OnPayload(payload) ==
    /\ spawned > 0
    /\ LET d == Dispatch(handlers, live, payload)
       IN  result' = [NoResult EXCEPT !.op = "on_payload", !.payload = payload,
                                      !.raised = d.raised, !.invoked = d.invoked]
    /\ UNCHANGED <<last_controller_id, handlers, node_runtime, transport, controllers, live,
                   issued, spawned, running, closing, stdin, disk, src_hash>>
    /\ UNCHANGED call_vars
    /\ UNCHANGED thread_vars

----------------------------------------------------------------------------
(* The multiplexer called from several threads at once.  The class takes no
   lock, so a call can be suspended between any two of its statements (the
   increment of line 118 between its load and its store).  Each caller thread
   registers its own handler, holds the controller it was returned, and
   destroys it; the reader thread runs on_payload.  In these runs the watcher
   process does not end by itself and no on_transport_close is delivered. *)

Callers == {"t1", "t2"}

Reader == "rd"

Threads == Callers \cup {Reader}

\* the callback object each caller registers
HandlerOf(t) == IF t = "t1" THEN "h1" ELSE "h2"

\* a thread outside any call, holding the controller of id held (0: none)
IdleThread(held) ==
    [pc |-> "idle", held |-> held, controller_id |-> 0, tmp |-> 0, uid |-> 0,
     node_bin |-> FALSE, installed |-> FALSE, process |-> 0,
     payload |-> <<>>, parts |-> <<>>, entry |-> <<>>, handler_impl |-> "None"]

\* register_watcher calls begun so far
CallsBegun ==
    Len(issued) + Cardinality({ t \in Callers : threads[t].pc \in {"r118_store", "r119"} })

\* what no step of a thread changes
still_vars == <<live, closing, src_hash, reader, pc, installed, steps, start, prev, after_ok>>

\* what only the end of a call changes
call_end_vars == <<controllers, result, released>>

\* thread t moves to position to; nothing else of it changes
Goto(t, to) == threads' = [threads EXCEPT ![t].pc = to]

\* the call of thread t returns; the caller then holds the controller of id held
Return(t, op, id, held) ==
    /\ threads' = [threads EXCEPT ![t] = IdleThread(held)]
    /\ controllers' = { threads'[u].held : u \in Callers } \ {0}
    /\ result' = [NoResult EXCEPT !.op = op, !.id = id]

\* the call of thread t ends with exception exc; no controller is returned, and
\* a controller whose destroy raised is dropped by its caller
Raise(t, op, id, exc) ==
    /\ threads' = [threads EXCEPT ![t] = IdleThread(0)]
    /\ controllers' = { threads'[u].held : u \in Callers } \ {0}
    /\ result' = [NoResult EXCEPT !.op = op, !.id = id, !.raised = exc]

\* line 118, first half: self._last_controller_id is loaded
R118Load(t) ==
    /\ threads[t].pc = "idle"
    /\ threads[t].held = 0
    /\ CallsBegun < MaxId
    /\ HandlerOf(t) \in live
    /\ threads' = [threads EXCEPT ![t].pc = "r118_store", ![t].tmp = last_controller_id]
    /\ UNCHANGED <<last_controller_id, handlers, node_runtime, transport, issued, spawned, running, stdin, disk>>
    /\ UNCHANGED call_end_vars
    /\ UNCHANGED still_vars

\* line 118, second half: the loaded value plus one is stored
R118Store(t) ==
    /\ threads[t].pc = "r118_store"
    /\ last_controller_id' = threads[t].tmp + 1
    /\ Goto(t, "r119")
    /\ UNCHANGED <<handlers, node_runtime, transport, issued, spawned, running, stdin, disk>>
    /\ UNCHANGED call_end_vars
    /\ UNCHANGED still_vars

\* lines 119-120: controller_id = self._last_controller_id, bound in the lambda
R119(t) ==
    /\ threads[t].pc = "r119"
    /\ threads' = [threads EXCEPT ![t].pc = "r132", ![t].controller_id = last_controller_id]
    /\ issued' = Append(issued, last_controller_id)
    /\ UNCHANGED <<last_controller_id, handlers, node_runtime, transport, spawned, running, stdin, disk>>
    /\ UNCHANGED call_end_vars
    /\ UNCHANGED still_vars

\* line 132: the entry is stored under str(self._last_controller_id), read anew
R132(t) ==
    /\ threads[t].pc = "r132"
    /\ handlers' = Put(handlers, Str(last_controller_id),
                       [handler |-> HandlerOf(t), root_path |-> RequestOf(HandlerOf(t)).root_path])
    /\ Goto(t, "r133")
    /\ UNCHANGED <<last_controller_id, node_runtime, transport, issued, spawned, running, stdin, disk>>
    /\ UNCHANGED call_end_vars
    /\ UNCHANGED still_vars

\* line 133: if len(self._handlers) and not self._transport
R133(t) ==
    /\ threads[t].pc = "r133"
    /\ Goto(t, IF ~TableEmpty(handlers) /\ transport = 0 THEN "s171" ELSE "r135")
    /\ UNCHANGED <<last_controller_id, handlers, node_runtime, transport, issued, spawned, running, stdin, disk>>
    /\ UNCHANGED call_end_vars
    /\ UNCHANGED still_vars

\* line 171: _resolve_node_runtime
S171(t) ==
    /\ threads[t].pc = "s171"
    /\ \/ /\ node_runtime' = TRUE
          /\ Goto(t, "s172")
          /\ UNCHANGED call_end_vars
       \/ /\ ~node_runtime
          /\ Raise(t, "register", threads[t].controller_id,
                   "Failed to locate the Node.js Runtime")
          /\ UNCHANGED <<node_runtime, released>>
    /\ UNCHANGED <<last_controller_id, handlers, transport, issued, spawned, running, stdin, disk>>
    /\ UNCHANGED still_vars

\* lines 172-174: node_bin = node_runtime.node_bin()
S172(t) ==
    /\ threads[t].pc = "s172"
    /\ \/ /\ threads' = [threads EXCEPT ![t].pc = "s175_check", ![t].node_bin = TRUE]
          /\ UNCHANGED call_end_vars
       \/ /\ Raise(t, "register", threads[t].controller_id, "Node binary not resolved")
          /\ UNCHANGED released
    /\ UNCHANGED <<last_controller_id, handlers, node_runtime, transport, issued, spawned,
                   running, stdin, disk>>
    /\ UNCHANGED still_vars

\* _initialize_storage raises in thread t, leaving the disk as d
InstallRaises(t, d) ==
    /\ disk' = d
    /\ Raise(t, "register", threads[t].controller_id, "npm install failed")
    /\ UNCHANGED released

\* line 175, lines 195-208 of _initialize_storage
S175Check(t) ==
    /\ threads[t].pc = "s175_check"
    /\ threads' = [threads EXCEPT ![t].installed = Installed(disk, src_hash),
                                  ![t].pc = IF Installed(disk, src_hash)
                                            THEN "s178" ELSE "s175_enter"]
    /\ UNCHANGED <<last_controller_id, handlers, node_runtime, transport, issued, spawned,
                   running, stdin, disk>>
    /\ UNCHANGED call_end_vars
    /\ UNCHANGED still_vars

\* line 209, __enter__
S175Enter(t) ==
    /\ threads[t].pc = "s175_enter"
    /\ \/ /\ disk' = MarkerEnter(disk)
          /\ Goto(t, "s175_rmtree")
          /\ UNCHANGED call_end_vars
       \/ InstallRaises(t, disk)
    /\ UNCHANGED <<last_controller_id, handlers, node_runtime, transport, issued, spawned,
                   running, stdin>>
    /\ UNCHANGED still_vars

\* lines 210-211
S175Rmtree(t) ==
    /\ threads[t].pc = "s175_rmtree"
    /\ \/ /\ disk' = (IF disk.dir THEN Rmtree(disk) ELSE disk)
          /\ Goto(t, "s175_copytree")
          /\ UNCHANGED call_end_vars
       \/ /\ disk.dir
          /\ \E x \in RmtreePartial(disk) : InstallRaises(t, MarkerExit(x, TRUE))
    /\ UNCHANGED <<last_controller_id, handlers, node_runtime, transport, issued, spawned,
                   running, stdin>>
    /\ UNCHANGED still_vars

\* line 212
S175Copytree(t) ==
    /\ threads[t].pc = "s175_copytree"
    /\ \/ /\ disk' = Copytree(disk, src_hash)
          /\ Goto(t, "s175_npm_install")
          /\ UNCHANGED call_end_vars
       \/ \E x \in CopytreePartial(disk, src_hash) : InstallRaises(t, MarkerExit(x, TRUE))
    /\ UNCHANGED <<last_controller_id, handlers, node_runtime, transport, issued, spawned,
                   running, stdin>>
    /\ UNCHANGED still_vars

\* lines 213-214; npm cannot install into a directory another thread has removed
S175NpmInstall(t) ==
    /\ threads[t].pc = "s175_npm_install"
    /\ \/ /\ disk.dir /\ disk.pkg # 0
          /\ disk' = NpmInstall(disk)
          /\ Goto(t, "s175_exit")
          /\ UNCHANGED call_end_vars
       \/ \E x \in (IF disk.dir THEN NpmInstallPartial(disk) ELSE {disk}) :
              InstallRaises(t, MarkerExit(x, TRUE))
    /\ UNCHANGED <<last_controller_id, handlers, node_runtime, transport, issued, spawned,
                   running, stdin>>
    /\ UNCHANGED still_vars

\* leaving the `with` block normally: line 62, remove(self._marker_path), which
\* raises when another thread has removed the marker
S175Exit(t) ==
    /\ threads[t].pc = "s175_exit"
    /\ \/ /\ disk.marker
          /\ disk' = MarkerExit(disk, FALSE)
          /\ Goto(t, "s178")
          /\ UNCHANGED call_end_vars
       \/ InstallRaises(t, disk)
    /\ UNCHANGED <<last_controller_id, handlers, node_runtime, transport, issued, spawned,
                   running, stdin>>
    /\ UNCHANGED still_vars

\* lines 176-181: subprocess.Popen
S178(t) ==
    /\ threads[t].pc = "s178"
    /\ \/ /\ spawned < MaxProcs
          /\ spawned' = spawned + 1
          /\ running' = running \cup {spawned + 1}
          /\ stdin' = Append(stdin, <<>>)
          /\ threads' = [threads EXCEPT ![t].pc = "s182", ![t].process = spawned + 1]
          /\ UNCHANGED call_end_vars
       \/ /\ Raise(t, "register", threads[t].controller_id, "Popen failed")
          /\ UNCHANGED <<spawned, running, stdin, released>>
    /\ UNCHANGED <<last_controller_id, handlers, node_runtime, transport, issued, disk>>
    /\ UNCHANGED still_vars

\* lines 182-183: self._transport = ProcessTransport(...)
S182(t) ==
    /\ threads[t].pc = "s182"
    /\ transport' = threads[t].process
    /\ Goto(t, "r135")
    /\ UNCHANGED <<last_controller_id, handlers, node_runtime, issued, spawned, running,
                   stdin, disk>>
    /\ UNCHANGED call_end_vars
    /\ UNCHANGED still_vars

\* lines 135-137: without a transport the call logs and returns its controller
R135(t) ==
    /\ threads[t].pc = "r135"
    /\ IF transport = 0
       THEN /\ Return(t, "register", threads[t].controller_id, threads[t].controller_id)
            /\ UNCHANGED released
       ELSE /\ Goto(t, "r139")
            /\ UNCHANGED call_end_vars
    /\ UNCHANGED <<last_controller_id, handlers, node_runtime, transport, issued, spawned,
                   running, stdin, disk>>
    /\ UNCHANGED still_vars

\* lines 139-147: register_data, its uid read from self._last_controller_id
R139(t) ==
    /\ threads[t].pc = "r139"
    /\ threads' = [threads EXCEPT ![t].pc = "r148", ![t].uid = last_controller_id]
    /\ UNCHANGED <<last_controller_id, handlers, node_runtime, transport, issued, spawned,
                   running, stdin, disk>>
    /\ UNCHANGED call_end_vars
    /\ UNCHANGED still_vars

\* lines 148 and 122: self._transport.send(...), then the controller is returned
R148(t) ==
    /\ threads[t].pc = "r148"
    /\ IF transport = 0
       THEN /\ Raise(t, "register", threads[t].controller_id, "AttributeError")
            /\ UNCHANGED stdin
       ELSE /\ stdin' = Send(transport, RegisterData(RequestOf(HandlerOf(t)), threads[t].uid))
            /\ Return(t, "register", threads[t].controller_id, threads[t].controller_id)
    /\ UNCHANGED <<last_controller_id, handlers, node_runtime, transport, issued, spawned,
                   running, disk, released>>
    /\ UNCHANGED still_vars

\* destroy() of the controller thread t holds; line 152: self._handlers.pop(...)
U152(t) ==
    /\ threads[t].pc = "idle"
    /\ threads[t].held # 0
    /\ IF Str(threads[t].held) \in DOMAIN handlers
       THEN /\ handlers' = Pop(handlers, Str(threads[t].held))
            /\ threads' = [threads EXCEPT ![t].pc = "u153", ![t].controller_id = threads[t].held]
            /\ UNCHANGED call_end_vars
       ELSE /\ Raise(t, "unregister", threads[t].held, "KeyError")
            /\ UNCHANGED <<handlers, released>>
    /\ UNCHANGED <<last_controller_id, node_runtime, transport, issued, spawned, running,
                   stdin, disk>>
    /\ UNCHANGED still_vars

\* the call _on_watcher_removed(controller_id) of thread t returns
Removed(t) ==
    /\ Return(t, "unregister", threads[t].controller_id, 0)
    /\ released' = released \cup {threads[t].controller_id}

\* lines 153-155
U153(t) ==
    /\ threads[t].pc = "u153"
    /\ IF transport = 0
       THEN Removed(t)
       ELSE /\ Goto(t, "u156")
            /\ UNCHANGED call_end_vars
    /\ UNCHANGED <<last_controller_id, handlers, node_runtime, transport, issued, spawned,
                   running, stdin, disk>>
    /\ UNCHANGED still_vars

\* line 156
U156(t) ==
    /\ threads[t].pc = "u156"
    /\ IF transport = 0
       THEN /\ Raise(t, "unregister", threads[t].controller_id, "AttributeError")
            /\ UNCHANGED <<stdin, released>>
       ELSE /\ stdin' = Send(transport, UnregisterData(threads[t].controller_id))
            /\ Goto(t, "u157")
            /\ UNCHANGED call_end_vars
    /\ UNCHANGED <<last_controller_id, handlers, node_runtime, transport, issued, spawned,
                   running, disk>>
    /\ UNCHANGED still_vars

\* line 157
U157(t) ==
    /\ threads[t].pc = "u157"
    /\ IF TableEmpty(handlers) /\ transport # 0
       THEN /\ Goto(t, "e217")
            /\ UNCHANGED call_end_vars
       ELSE Removed(t)
    /\ UNCHANGED <<last_controller_id, handlers, node_runtime, transport, issued, spawned,
                   running, stdin, disk>>
    /\ UNCHANGED still_vars

\* line 217 of the _end_process that line 158 calls
E217(t) ==
    /\ threads[t].pc = "e217"
    /\ IF transport # 0
       THEN /\ Goto(t, "e218")
            /\ UNCHANGED call_end_vars
       ELSE Removed(t)
    /\ UNCHANGED <<last_controller_id, handlers, node_runtime, transport, issued, spawned,
                   running, stdin, disk>>
    /\ UNCHANGED still_vars

\* line 218: self._transport.close()
E218(t) ==
    /\ threads[t].pc = "e218"
    /\ IF transport = 0
       THEN /\ Raise(t, "unregister", threads[t].controller_id, "AttributeError")
            /\ UNCHANGED <<running, stdin, released>>
       ELSE /\ running' = running \ {transport}
            /\ stdin' = Closed(stdin)
            /\ Goto(t, "e219")
            /\ UNCHANGED call_end_vars
    /\ UNCHANGED <<last_controller_id, handlers, node_runtime, transport, issued, spawned, disk>>
    /\ UNCHANGED still_vars

\* lines 219-220: self._transport = None, and the call returns
E219(t) ==
    /\ threads[t].pc = "e219"
    /\ transport' = 0
    /\ Removed(t)
    /\ UNCHANGED <<last_controller_id, handlers, node_runtime, issued, spawned, running,
                   stdin, disk>>
    /\ UNCHANGED still_vars

\* the lines the process prints in these runs: one for each id and for an id that
\* is no key of the table, and lines with fewer than two separators
ThreadPayloads ==
    { u \o <<":", "changed", ":", "src", "/", "foo.py">> : u \in UidTexts }
    \cup { <<"1", ":", "changed">>, <<"ready">> }

\* on_payload(payload), lines 225-228, on the reader thread
P225(t, payload) ==
    /\ threads[t].pc = "idle"
    /\ spawned > 0
    /\ IF Find(payload, ":", 1) = 0
       THEN /\ threads' = [threads EXCEPT ![t] = IdleThread(0)]
            /\ result' = [NoResult EXCEPT !.op = "on_payload", !.payload = payload]
       ELSE IF Len(Split(payload, ":", 2)) # 3
       THEN /\ threads' = [threads EXCEPT ![t] = IdleThread(0)]
            /\ result' = [NoResult EXCEPT !.op = "on_payload", !.payload = payload,
                                          !.raised = "ValueError"]
       ELSE /\ threads' = [threads EXCEPT ![t].pc = "p229", ![t].payload = payload,
                                          ![t].parts = Split(payload, ":", 2)]
            /\ UNCHANGED result
    /\ UNCHANGED <<last_controller_id, handlers, node_runtime, transport, issued, spawned,
                   running, stdin, disk, controllers, released>>
    /\ UNCHANGED still_vars

\* line 229: handler, root_path = self._handlers[uid]
P229(t) ==
    /\ threads[t].pc = "p229"
    /\ IF threads[t].parts[1] \in DOMAIN handlers
       THEN /\ threads' = [threads EXCEPT ![t].pc = "p230",
                                          ![t].entry = handlers[threads[t].parts[1]]]
            /\ UNCHANGED result
       ELSE /\ threads' = [threads EXCEPT ![t] = IdleThread(0)]
            /\ result' = [NoResult EXCEPT !.op = "on_payload", !.payload = threads[t].payload,
                                          !.raised = "KeyError"]
    /\ UNCHANGED <<last_controller_id, handlers, node_runtime, transport, issued, spawned,
                   running, stdin, disk, controllers, released>>
    /\ UNCHANGED still_vars

\* lines 230-233: handler_impl = handler()
P230(t) ==
    /\ threads[t].pc = "p230"
    /\ IF Deref(live, threads[t].entry.handler) = "None"
       THEN /\ threads' = [threads EXCEPT ![t] = IdleThread(0)]
            /\ result' = [NoResult EXCEPT !.op = "on_payload", !.payload = threads[t].payload]
       ELSE /\ threads' = [threads EXCEPT ![t].pc = "p235",
                               ![t].handler_impl = Deref(live, threads[t].entry.handler)]
            /\ UNCHANGED result
    /\ UNCHANGED <<last_controller_id, handlers, node_runtime, transport, issued, spawned,
                   running, stdin, disk, controllers, released>>
    /\ UNCHANGED still_vars

\* lines 234-235: handler_impl.on_file_event_async([...])
P235(t) ==
    /\ threads[t].pc = "p235"
    /\ threads' = [threads EXCEPT ![t] = IdleThread(0)]
    /\ result' = [NoResult EXCEPT
                    !.op = "on_payload", !.payload = threads[t].payload,
                    !.invoked = << [handler |-> threads[t].handler_impl,
                                    batch |-> << <<threads[t].parts[2],
                                                   Join(threads[t].entry.root_path,
                                                        threads[t].parts[3])>> >>] >>]
    /\ UNCHANGED <<last_controller_id, handlers, node_runtime, transport, issued, spawned,
                   running, stdin, disk, controllers, released>>
    /\ UNCHANGED still_vars

NextThreads ==
    \/ \E t \in Callers :
         \/ R118Load(t) \/ R118Store(t) \/ R119(t) \/ R132(t) \/ R133(t)
         \/ S171(t) \/ S172(t) \/ S175Check(t) \/ S175Enter(t) \/ S175Rmtree(t)
         \/ S175Copytree(t) \/ S175NpmInstall(t) \/ S175Exit(t) \/ S178(t) \/ S182(t)
         \/ R135(t) \/ R139(t) \/ R148(t)
         \/ U152(t) \/ U153(t) \/ U156(t) \/ U157(t) \/ E217(t) \/ E218(t) \/ E219(t)
    \/ \E payload \in ThreadPayloads : P225(Reader, payload)
    \/ P229(Reader) \/ P230(Reader) \/ P235(Reader)

----------------------------------------------------------------------------
(* The transport's read loop over StringTransportHandler.read_data.  A byte
   line is a sequence of tokens: "\n" and " " are whitespace, "xFF" is a byte
   that is no UTF-8, every other token is a piece of ASCII text. *)

\* lines of one output stream of the process
MaxLines == 3

Whitespace == {" ", "\n"}

\* data.decode('utf-8') raises UnicodeDecodeError
DecodeFails(data) == \E i \in 1..Len(data) : data[i] = "xFF"

\* data.decode('utf-8') of data that decodes: ASCII bytes are their own text
Decode(data) == data

\* text.strip()
RECURSIVE Strip(_)
Strip(text) ==
    IF text = <<>> THEN text
    ELSE IF text[1] \in Whitespace THEN Strip(Tail(text))
    ELSE IF text[Len(text)] \in Whitespace THEN Strip(SubSeq(text, 1, Len(text) - 1))
    ELSE text

\* read_data, given the bytes readline() returned: what it raises, the text it
\* returns and whether it logged a decode error
ReadData(data) ==
    LET failed == DecodeFails(data)         \* the except branch: text is still None
        text == IF failed THEN <<>> ELSE Strip(Decode(data))
    IN  IF failed \/ text = <<>>            \* if not text (None or ''), line 77
        THEN [raised |-> "StopLoopError", text |-> <<>>, logged |-> failed]
        ELSE [raised |-> "none", text |-> text, logged |-> failed]

\* the lines the process may write
OutputLines ==
    { <<"1", ":", "changed", ":", "x", "\n">>,
      <<" ", "ready", " ", "\n">>,
      <<"\n">>,
      <<"xFF", "\n">>,
      <<"1", ":", "xFF", ":", "x", "\n">> }

\* reader.readline(): the next line, b'' at the end of the stream
Readline(stream, pos) == IF pos <= Len(stream) THEN stream[pos] ELSE <<>>

NoReader ==
    [stream |-> <<>>, pos |-> 1, loop |-> "unused", last |-> <<>>, logged |-> FALSE,
     payloads |-> <<>>]

\* one turn of the read loop: read_data is called; StopLoopError ends the loop,
\* a returned text is passed on as a payload
ReadLoop ==
    /\ reader.loop = "reading"
    /\ LET data == Readline(reader.stream, reader.pos)
           r == ReadData(data)
       IN  reader' = [reader EXCEPT
                        !.pos = @ + 1,
                        !.last = data,
                        !.logged = r.logged,
                        !.loop = IF r.raised = "StopLoopError" THEN "stopped" ELSE "reading",
                        !.payloads = IF r.raised = "none" THEN Append(@, r.text) ELSE @]
    /\ UNCHANGED mux_vars
    /\ UNCHANGED call_vars
    /\ UNCHANGED <<disk, src_hash, threads, released>>

----------------------------------------------------------------------------

\* the fields after __init__, the module's file_watcher of line 264
InitObjects ==
    /\ last_controller_id = 0
    /\ handlers = <<>>
    /\ node_runtime = FALSE
    /\ transport = 0
    /\ controllers = {}
    /\ live = Handlers
    /\ issued = <<>>
    /\ spawned = 0
    /\ running = {}
    /\ closing = {}
    /\ stdin = <<>>
    /\ disk = EmptyDisk
    /\ src_hash = 1
    /\ pc = "idle"
    /\ installed = FALSE
    /\ steps = <<>>
    /\ start = [disk |-> EmptyDisk, src |-> 1]
    /\ prev = "none"
    /\ after_ok = FALSE
    /\ result = NoResult
    /\ threads = [t \in Threads |-> IdleThread(0)]
    /\ released = {}

Init ==
    /\ InitObjects
    /\ reader = NoReader

\* the transport starts reading the output of a process it has just been given
InitReader ==
    /\ InitObjects
    /\ \E n \in 0..MaxLines : \E stream \in [1..n -> OutputLines] :
           reader = [NoReader EXCEPT !.stream = stream, !.loop = "reading"]

NextReader == ReadLoop

SpecReader == InitReader /\ [][NextReader]_vars

NextInstall ==
    \/ Call
    \/ Check
    \/ Enter
    \/ RmtreeStep
    \/ CopytreeStep
    \/ NpmInstallStep
    \/ ExitStep
    \/ Kill
    \/ PackageUpdated

SpecInstall == Init /\ [][NextInstall]_vars

Next ==
    \/ \E h \in Handlers : Register(RequestOf(h), h)
    \/ \E controller_id \in 1..MaxId : Unregister(controller_id)
    \/ \E p \in 1..MaxProcs : ProcessExit(p)
    \/ \E p \in 1..MaxProcs : OnTransportClose(p)
    \/ \E h \in Handlers : DestroyHandler(h)
    \/ \E payload \in Payloads : OnPayload(payload)

Spec == Init /\ [][Next]_vars

SpecThreads == Init /\ [][NextThreads]_vars

----------------------------------------------------------------------------
(* What the claims speak of. *)

Range(s) == { s[i] : i \in 1..Len(s) }

\* the number of ":" in a line
Separators(line) == Cardinality({ i \in 1..Len(line) : line[i] = ":" })

\* the readings <<uid, type, rel>> of a line uid:type:rel, uid and type free of
\* ":" and rel whatever follows the second ":"; none when the line has another form
Fields(line) ==
    { <<SubSeq(line, 1, p[1] - 1), SubSeq(line, p[1] + 1, p[2] - 1),
        SubSeq(line, p[2] + 1, Len(line))>> :
        p \in { q \in (1..Len(line)) \X (1..Len(line)) :
                  /\ q[1] < q[2]
                  /\ line[q[1]] = ":" /\ line[q[2]] = ":"
                  /\ \A k \in 1..(q[2] - 1) : k # q[1] => line[k] # ":" } }

\* the normalization table of the specification; <<>> for a token outside it
Normalize(token) ==
    CASE token = <<"added">> -> <<"create">>
      [] token = <<"changed">> -> <<"change">>
      [] token = <<"removed">> -> <<"delete">>
      [] OTHER -> <<>>

\* the event kind of a token: normalized when the table has it, else as it is
Kind(token) == IF Normalize(token) # <<>> THEN Normalize(token) ELSE token

\* the event kinds a subscriber asked for
Requested(h) == { <<e>> : e \in Range(RequestOf(h).events) }

\* the last operation was a dispatch of a line for a table entry with a live handler
Delivered(f) ==
    /\ f[1] \in DOMAIN handlers
    /\ handlers[f[1]].handler \in live

----------------------------------------------------------------------------
(* C1 as stated: after each register or unregister call the process is running
   if and only if the table is non-empty. *)
C1_RunningIffNonEmpty ==
    result.op \in {"register", "unregister"}
        => ((transport # 0) <=> (DOMAIN handlers # {}))

(* C1, amended: whenever a process is referenced the table is non-empty, and a
   register call that returns normally leaves a process referenced (the table
   can be non-empty with no process after a failed startup or after the process
   ended by itself).  A register call starts a process exactly when none is
   referenced and startup succeeds, one per call, and nothing else starts one;
   an unregister call stops the process exactly when it removes the last entry
   while a process is referenced. *)
C1_Lifecycle ==
    /\ [](transport # 0 => DOMAIN handlers # {})
    /\ [](result.op = "register" /\ result.raised = "none" => transport # 0)
    /\ [][ /\ spawned' \in {spawned, spawned + 1}
           /\ (spawned' # spawned) <=>
                  (issued' # issued /\ transport = 0 /\ result'.raised = "none")
           /\ spawned' # spawned => transport' = spawned' /\ transport' \in running'
           /\ controllers' # controllers /\ result'.op = "unregister" =>
                  ((transport # 0 /\ transport' = 0) <=>
                       (transport # 0 /\ DOMAIN handlers' = {}))
         ]_vars

\* a process was started, stopped by the last unregister, started again and stopped
C1_Witness ==
    /\ result.op = "unregister"
    /\ spawned = 2
    /\ transport = 0
    /\ DOMAIN handlers = {}

(* C2: subscription ids start at 1 and are strictly increasing in registration
   order, whatever happened in between (unregister, process stop and restart, a
   failed startup); no two registrations share an id or a table key, and every
   table entry and every handle carries the id of one registration. *)
C2_IdsIncrease ==
    /\ issued # <<>> => issued[1] = 1
    /\ \A i, j \in 1..Len(issued) : i < j =>
           issued[i] < issued[j] /\ Str(issued[i]) # Str(issued[j])
    /\ \A k \in DOMAIN handlers : \E i \in 1..Len(issued) : k = Str(issued[i])
    /\ controllers \subseteq Range(issued)

\* a registration got the next id and started the process after a registration
\* whose startup failed (its entry is in the table and no handle was returned)
C2_Witness ==
    /\ result.op = "register" /\ result.id = Len(issued) /\ result.raised = "none"
    /\ Len(issued) > 1
    /\ transport \in running
    /\ \E i \in 1..Len(issued) :
           Str(issued[i]) \in DOMAIN handlers /\ issued[i] \notin controllers

(* C3 as stated: a line uid:token:rel for a table entry with a live handler
   invokes the handler once with [(kind, join(root_path, rel))], kind the
   normalized kind of the token, and does not invoke it for a token outside the
   normalization table. *)
C3_Normalized ==
    result.op = "on_payload" =>
        \A f \in Fields(result.payload) : Delivered(f) =>
            result.invoked =
                IF Normalize(f[2]) # <<>>
                THEN << [handler |-> handlers[f[1]].handler,
                         batch |-> << <<Normalize(f[2]),
                                        Join(handlers[f[1]].root_path, f[3])>> >>] >>
                ELSE <<>>

(* C3, amended: a line uid:token:rel for a table entry with a live handler (rel
   taken whole after the second separator) invokes that entry's handler exactly
   once, without error, with the one-element batch [(token, join(root_path,
   rel))]: the token is passed on as it is, whatever it is. *)
C3_Dispatch ==
    result.op = "on_payload" =>
        \A f \in Fields(result.payload) : Delivered(f) =>
            /\ result.raised = "none"
            /\ result.invoked =
                   << [handler |-> handlers[f[1]].handler,
                       batch |-> << <<f[2], Join(handlers[f[1]].root_path, f[3])>> >>] >>

\* a line whose path holds a ":" was delivered
C3_Witness ==
    /\ result.op = "on_payload"
    /\ Len(result.invoked) = 1
    /\ \E f \in Fields(result.payload) : Delivered(f) /\ ":" \in Range(f[3])

(* C4: a well-formed line whose uid is in the table while the handler's weak
   reference has expired invokes no handler and raises no error, and dispatch
   leaves the table and the process as they were. *)
C4_ExpiredHandler ==
    /\ [](result.op = "on_payload" =>
            \A f \in Fields(result.payload) :
                f[1] \in DOMAIN handlers /\ handlers[f[1]].handler \notin live =>
                    result.raised = "none" /\ result.invoked = <<>>)
    /\ [][result'.op = "on_payload" =>
            UNCHANGED <<handlers, transport, running, closing, stdin, spawned>>]_vars

\* a line arrived for an entry whose handler had been destroyed, the process running
C4_Witness ==
    /\ result.op = "on_payload"
    /\ transport # 0
    /\ \E f \in Fields(result.payload) :
           f[1] \in DOMAIN handlers /\ handlers[f[1]].handler \notin live

(* C5: a line whose uid matches no table entry is discarded: dispatch raises no
   error and invokes no handler. *)
C5_UnknownUidDiscarded ==
    result.op = "on_payload" =>
        \A f \in Fields(result.payload) :
            f[1] \notin DOMAIN handlers =>
                result.raised = "none" /\ result.invoked = <<>>

(* C6: a line with fewer than two ":" separators is discarded: dispatch raises no
   error and invokes no handler. *)
C6_MalformedDiscarded ==
    result.op = "on_payload" /\ Separators(result.payload) < 2 =>
        result.raised = "none" /\ result.invoked = <<>>

(* C7 as stated: the handler is invoked only for an event whose kind is among the
   event kinds given at registration. *)
C7_Filtered ==
    result.op = "on_payload" =>
        \A i \in 1..Len(result.invoked) :
            Kind(result.invoked[i].batch[1][1]) \in Requested(result.invoked[i].handler)

(* C7, amended: dispatch does not filter by event kind.  The event kinds given at
   registration are written to the process in the Register command, and every
   line for a table entry with a live handler invokes that handler once, whatever
   its kind. *)
C7_NoFilter ==
    /\ result.op = "on_payload" =>
           \A f \in Fields(result.payload) : Delivered(f) =>
               Len(result.invoked) = 1
               /\ result.invoked[1].handler = handlers[f[1]].handler
    /\ \A p \in DOMAIN stdin : \A i \in 1..Len(stdin[p]) :
           stdin[p][i].op = "register" =>
               \E h \in Handlers :
                   /\ stdin[p][i].cwd = RequestOf(h).root_path
                   /\ stdin[p][i].events = RequestOf(h).events

\* a handler was invoked for a kind it had not asked for, its Register command
\* written to the running process
C7_Witness ==
    /\ result.op = "on_payload"
    /\ Len(result.invoked) = 1
    /\ Kind(result.invoked[1].batch[1][1]) \notin Requested(result.invoked[1].handler)
    /\ transport \in running
    /\ \E i \in 1..Len(stdin[transport]) : stdin[transport][i].op = "register"

(* C8: the installer trusts the install only when node_modules exists, the
   installed manifest hash equals the expected one and the marker is absent, and
   then performs no install step; in every other starting state (a differing
   hash, or the marker present even with equal hashes) a call that returns has
   set the marker, removed the existing tree, copied, installed and removed the
   marker. *)
C8_ValidIffHashAndNoMarker ==
    pc = "idle" /\ prev = "ok" =>
        LET s == start.disk
            valid == s.nm # 0 /\ s.pkg = start.src /\ ~s.marker
        IN  IF valid
            THEN steps = <<>> /\ disk = s /\ Complete(s, start.src)
            ELSE /\ steps = <<"marker">> \o (IF s.dir THEN <<"rmtree">> ELSE <<>>)
                              \o <<"copytree", "npm_install", "unmarker">>
                 /\ Complete(disk, src_hash)
                 /\ ~disk.marker

\* a call found the marker beside a whole install of the expected version, and
\* reinstalled
C8_Witness ==
    /\ pc = "idle" /\ prev = "ok"
    /\ start.disk.marker
    /\ Complete(start.disk, start.src)
    /\ "rmtree" \in Range(steps)

(* C9: the marker is there from before the first destructive step and is removed
   only when all steps have succeeded, so at every point, also after an exception
   or a kill, a destination tree that is not a whole install has the marker
   beside it, and a call that starts from such a tree and returns has reinstalled
   it. *)
C9_MarkerGuardsInstall ==
    /\ [](disk.dir /\ ~Whole(disk) => disk.marker)
    /\ [](pc \in {"rmtree", "copytree", "npm_install", "exit"} => disk.marker)
    /\ [](pc = "idle" /\ prev = "ok" /\ start.disk.dir /\ ~Whole(start.disk) =>
             steps # <<>> /\ Complete(disk, src_hash))
    /\ [][disk # disk' /\ ~disk.marker => disk' = MarkerEnter(disk)]_vars
    /\ [][disk.marker /\ ~disk'.marker => Complete(disk', src_hash)]_vars

\* a call found a broken tree left by an interrupted install and repaired it
C9_Witness ==
    /\ pc = "idle" /\ prev = "ok"
    /\ start.disk.dir /\ ~Whole(start.disk) /\ start.disk.marker
    /\ Complete(disk, src_hash)

(* C10: a call that follows a call that returned normally, with no change to the
   manifest or the destination in between, performs no install step and changes
   nothing, so the two calls together install at most once. *)
C10_Idempotent ==
    pc = "idle" /\ prev = "ok" /\ after_ok =>
        steps = <<>> /\ disk = start.disk

\* the second of two calls in a row has returned
C10_Witness ==
    /\ pc = "idle" /\ prev = "ok" /\ after_ok
    /\ Complete(disk, src_hash)

----------------------------------------------------------------------------
(* Concurrent callers. *)

\* thread t is inside an install sequence: its marker is created and it has not
\* yet removed it
Installing(t) ==
    threads[t].pc \in {"s175_rmtree", "s175_copytree", "s175_npm_install", "s175_exit"}

(* C11: the installer serializes concurrent callers: the install sequences of two
   concurrent first registrations never overlap, and the marker is never removed
   while an install is still in progress. *)
C11_InstallsSerialized ==
    /\ Cardinality({ t \in Callers : Installing(t) }) <= 1
    /\ (\E t \in Callers : Installing(t)) => disk.marker

(* C14: at most one watcher process exists at any time under every interleaving
   of register and unregister calls from concurrent callers: two processes are
   never alive together, and once no call is in progress every running process
   is the one the supervisor references. *)
C14_AtMostOneProcess ==
    /\ Cardinality(running) <= 1
    /\ (\A t \in Callers : threads[t].pc = "idle") => running \subseteq {transport}

(* C16: under every interleaving of concurrent register calls each registration
   has its own table entry, keyed by the id its returned handle unregisters, the
   Register command sent for it carries that id as uid, and releasing a returned
   handle removes that entry without error. *)
C16_OwnEntryPerRegistration ==
    /\ \A t \in Callers :
           threads[t].pc = "idle" /\ threads[t].held # 0 =>
               /\ Str(threads[t].held) \in DOMAIN handlers
               /\ handlers[Str(threads[t].held)].handler = HandlerOf(t)
    /\ \A t \in Callers :
           threads[t].pc = "r148" => threads[t].uid = threads[t].controller_id
    /\ result.op = "unregister" => result.raised = "none"

(* C18: no use after remove: under every interleaving of on_payload with
   unregister calls, once the unregister call of an id has returned no handler
   is invoked for a line of that id. *)
C18_NoUseAfterRemove ==
    result.op = "on_payload" /\ Len(result.invoked) > 0 =>
        \A f \in Fields(result.payload) : \A id \in released : f[1] # Str(id)

----------------------------------------------------------------------------
(* Startup failures, unexpected exits and restarts. *)

\* the last step was a register call whose startup failed
StartupFailed == result.op = "register" /\ result.raised # "none"

(* C12: when startup fails during a registration the error is raised to the
   caller (no handle is returned), the entry of that registration stays in the
   table and no process is recorded or left running; the registration after it
   finds no process and attempts startup again, and when that startup works the
   process runs and is referenced, with the entry of the failed registration
   still in the table. *)
C12_FailedStartup ==
    /\ [](StartupFailed =>
            /\ Str(result.id) \in DOMAIN handlers
            /\ result.id \notin controllers
            /\ transport = 0
            /\ running = {})
    /\ [][StartupFailed' /\ issued' # issued =>
            /\ transport = 0
            /\ running' = running /\ spawned' = spawned /\ stdin' = stdin
            /\ controllers' = controllers
            /\ DOMAIN handlers' = DOMAIN handlers \cup {Str(result'.id)}]_vars
    /\ [][StartupFailed /\ issued' # issued =>
            /\ \E o \in StartProcess(node_runtime, disk, src_hash) :
                   /\ result'.raised = o.raised
                   /\ node_runtime' = o.node_runtime
                   /\ disk' = o.disk
            /\ result'.raised = "none" =>
                   /\ transport' = spawned + 1
                   /\ transport' \in running'
                   /\ result'.id \in controllers'
                   /\ DOMAIN handlers' = DOMAIN handlers \cup {Str(result'.id)}]_vars

\* the registration after a failed one started the process: the table holds both
\* entries, the caller holds one handle
C12_Witness ==
    /\ result.op = "register" /\ result.raised = "none" /\ result.id = 2
    /\ DOMAIN handlers = {Str(1), Str(2)}
    /\ controllers = {2}
    /\ transport = 1 /\ running = {1}

(* C13: when the process ends by itself while the table is non-empty, its
   on_transport_close releases the process handle and leaves every table entry;
   only register and unregister calls change the table, only a register call
   starts a process (no automatic restart), and an unregister call made while no
   process is referenced only removes its entry and sends nothing. *)
C13_NoAutomaticRestart ==
    [][ /\ result'.op = "on_transport_close" /\ result'.id \in closing \ closing' =>
               transport' = 0 /\ spawned' = spawned /\ running' \subseteq running
        /\ handlers' # handlers => result'.op \in {"register", "unregister"}
        /\ spawned' # spawned \/ ~(running' \subseteq running) =>
               issued' # issued /\ result'.op = "register"
        /\ result'.op = "unregister" /\ controllers' # controllers /\ transport = 0 =>
               /\ handlers' = Pop(handlers, Str(result'.id))
               /\ stdin' = stdin
               /\ transport' = 0 /\ running' = running /\ spawned' = spawned
      ]_vars

\* the process ended by itself with two entries in the table, its handle was
\* released, and one entry was then unregistered with no process
C13_Witness ==
    /\ result.op = "unregister"
    /\ spawned = 1 /\ running = {} /\ closing = {}
    /\ transport = 0
    /\ DOMAIN handlers # {}
    /\ Len(issued) = 2 /\ Cardinality(controllers) = 1

(* C17: releasing the last subscription terminates the process: whenever a
   release leaves no handle that register returned unreleased, also after failed
   startups and unexpected exits, the table is empty and no process is running
   or referenced. *)
C17_AllReleasedStops ==
    result.op = "unregister" /\ controllers = {} =>
        DOMAIN handlers = {} /\ transport = 0 /\ running = {}

(* C19: the transport-close notification of an earlier process never stops a
   later one: when on_transport_close is delivered for a process other than the
   one the supervisor references and that one is running, it is still running
   and still referenced afterwards. *)
C19_StaleCloseKeepsProcess ==
    [][ /\ result'.op = "on_transport_close"
        /\ result'.id \in closing \ closing'
        /\ transport # 0 /\ transport # result'.id /\ transport \in running
        => transport' = transport /\ transport \in running' ]_vars

\* the commands of kind op written to process p for the table key k
Commands(p, op, k) ==
    { i \in 1..Len(stdin[p]) : stdin[p][i].op = op /\ Str(stdin[p][i].uid) = k }

(* C20: whenever a process is running and referenced, every entry of the table
   has had its Register command, with its own uid, written to that process and
   no Unregister command: a registration that starts the process after a failed
   startup or an unexpected exit leaves the remaining entries registered with
   the new process. *)
C20_EntriesRegisteredWithProcess ==
    transport \in running =>
        \A k \in DOMAIN handlers :
            /\ Commands(transport, "register", k) # {}
            /\ Commands(transport, "unregister", k) = {}

----------------------------------------------------------------------------
(* The read loop. *)

(* C15: the read loop stops exactly when a line decodes to empty text: after any
   line that fails to decode (logged and discarded) or that decodes to text, the
   loop goes on with the next line. *)
C15_StopsOnlyAtEmptyText ==
    reader.pos > 1 =>
        (reader.loop = "stopped"
            <=> (~DecodeFails(reader.last) /\ Strip(Decode(reader.last)) = <<>>))

====
